---- MODULE Spec2Model ----
(***************************************************************************)
(* Model of the grasp-synthesis core of learning_based_grasp_synthesis:     *)
(*   - mask_based_algo/grasp_mask.py : GraspMask (mask bank, depth          *)
(*     normalisation, rotated scoring, ranking)                             *)
(*   - top_surface_algo/pyefd.py     : boundary-fit get_grasp (contact      *)
(*     pair filter)                                                         *)
(* Each component has its own specification over the shared variables.      *)
(***************************************************************************)
EXTENDS Integers, Sequences, FiniteSets, TLC

VARIABLES
    \* ---- GraspMask object (grasp_mask.py) ----
    grasp_mode,     \* self.grasp_mode
    angles,         \* self.angles (persistent list, degrees)
    mask_sizes,     \* self.mask_sizes, each size a rational [n, d]
    weights,        \* self.weights
    masks,          \* self.masks, each mask a record (see MakeMask)
    bank_status,    \* outcome of generate_masks: "unbuilt" | "ok" | "IndexError"
    \* ---- one GraspMask.get_grasp invocation ----
    calls,          \* number of get_grasp invocations so far
    depth_image,    \* the depth frame of the last invocation (float32 samples)
    norm_image,     \* original_depth_image_norm of the last invocation
    major_angle,    \* major_component_angle of the last invocation
    best_grasps,    \* the ranked candidate list of the last invocation
    ret,            \* what the last invocation returned or raised
    \* ---- boundary-fit get_grasp (pyefd.py) ----
    efd_cands,      \* candidate points handed over by get_extremum_points
    efd_grasps,     \* the accepted list `grasps`
    efd_ret,        \* what get_grasp returned or raised
    \* ---- affine round trip (get_grasp / calculate_best_grasp) ----
    aff,            \* one forward/backward mapping of a pixel
    \* ---- GraspMask.get_major_directions ----
    pca,            \* one eigen-sort-and-select
    \* ---- contour segmentation of the boundary-fit get_grasp ----
    seg             \* the split of the last contour

vars == << grasp_mode, angles, mask_sizes, weights, masks, bank_status,
           calls, depth_image, norm_image, major_angle, best_grasps, ret,
           efd_cands, efd_grasps, efd_ret, aff, pca, seg >>

maskVars == << grasp_mode, angles, mask_sizes, weights, masks, bank_status >>
callVars == << calls, depth_image, norm_image, major_angle, best_grasps, ret >>
efdVars  == << efd_cands, efd_grasps, efd_ret >>

----------------------------------------------------------------------------
(* Bounds of the model *)

MaxCalls   == 3   \* get_grasp invocations explored
MaxSeed    == 2   \* response tables 0..MaxSeed of the filter stage
MaxSizes   == 5   \* longest configured mask-size list explored
MaxWeights == 6   \* longest configured weight list explored
FrameLen   == 3   \* samples per depth frame
MaxCand    == 4   \* candidate points per boundary-fit request
MaxPixel   == 3   \* pixel rows and columns 0..MaxPixel of the round trip
MaxEig     == 10  \* eigenvalues 0..MaxEig of the covariance matrix
MaxContour == 4   \* points of an input contour of the boundary-fit request

----------------------------------------------------------------------------
(* Small helpers *)

SetMax(S) == CHOOSE v \in S : \A u \in S : u <= v
SetMin(S) == CHOOSE v \in S : \A u \in S : v <= u

Min2(a, b) == IF a <= b THEN a ELSE b

Abs(a) == IF a < 0 THEN -a ELSE a

RECURSIVE SeqMin(_)
SeqMin(s) == IF Len(s) = 1 THEN s[1] ELSE Min2(s[1], SeqMin(Tail(s)))

RECURSIVE SeqMax(_)
SeqMax(s) == IF Len(s) = 1 THEN s[1]
             ELSE LET m == SeqMax(Tail(s)) IN IF s[1] >= m THEN s[1] ELSE m

----------------------------------------------------------------------------
(* GraspMask.__init__ : configuration *)

Modes == { "ALL_ROTATIONS", "MAJOR_COMPONENT_IMAGE", "MAJOR_COMPONENT_MASK" }

\* np.arange(-90, 90, 5).tolist(): -90, -85, ..., 85 (the stop value is excluded)
SweepStart == -90
SweepStop  == 90
SweepStep  == 5
ArangeLen(start, stop, step) ==
    IF stop <= start THEN 0 ELSE (stop - start + step - 1) \div step
Arange(start, stop, step) ==
    [ i \in 1..ArangeLen(start, stop, step) |-> start + (i - 1) * step ]
ConfiguredAngles == Arange(SweepStart, SweepStop, SweepStep)

\* [1024/i for i in range(4, 20, 4)]: true division, the sizes are rationals n/d
SizeBase  == 1024
SizeFirst == 4
SizeStop  == 20
SizeStep  == 4
SizeList(base, count) ==
    [ k \in 1..count |-> [ n |-> base, d |-> SizeFirst + (k - 1) * SizeStep ] ]
ConfiguredSizes == SizeList(SizeBase, ArangeLen(SizeFirst, SizeStop, SizeStep))

\* self.weights = [1, 2, 3, 4, 5]
ConfiguredWeights == << 1, 2, 3, 4, 5 >>

----------------------------------------------------------------------------
(* GraspMask.generate_masks *)

\* np.ones((int(size/5), int(3*size/5))): the shape of ONE band
BandRows(size) == size.n \div (5 * size.d)
BandCols(size) == (3 * size.n) \div (5 * size.d)

\* np.concatenate((mask1, ..., mask5), axis=0): five bands stacked along the rows
NBands == 5
MaskRowsOneBand(size) == BandRows(size)
MaskRows(size) == NBands * BandRows(size)
MaskCols(size) == BandCols(size)

\* mask = bands / ((3/2) * size * size) * weights[i]; the bands' values are
\* -1, 0, 1, 0, -1, so the mask is fixed by its shape, its size and its weight.
MakeMask(size, w) ==
    [ rows |-> MaskRows(size), cols |-> MaskCols(size),
      bands |-> << -1, 0, 1, 0, -1 >>, size |-> size, weight |-> w ]

\* for i in range(len(self.mask_sizes)): ... self.weights[i] ...
\* weights[i] raises IndexError at the first i > len(weights); the masks
\* appended before that stay in self.masks.
BuiltCount(sizes, ws) == Min2(Len(sizes), Len(ws))
MaskWeightNext(ws, i) == ws[Min2(i + 1, Len(ws))]
MaskWeight(ws, i) == ws[i]
GenerateMasks(sizes, ws) ==
    [ i \in 1..BuiltCount(sizes, ws) |-> MakeMask(sizes[i], MaskWeight(ws, i)) ]
GenerateStatus(sizes, ws) ==
    IF Len(ws) < Len(sizes) THEN "IndexError" ELSE "ok"

----------------------------------------------------------------------------
(* GraspMask.normalize_depth                                                *)
(* The depth frame is a float32 image (32FC1, passed through unchanged by   *)
(* depth_image_callback).  A frame is modelled by integer samples k, the    *)
(* float32 values k * 2^E for one exponent E of the frame (k < 2^24), so    *)
(* that depth_image - min is exact, as it is in float32 for such a frame.   *)
(* The product by 255 and the quotient are float32 operations, rounded to   *)
(* nearest, ties to even; a float is [m, e], the value m * 2^e.             *)

MantBits == 24                  \* float32 significand width
MantTop  == 2 ^ MantBits        \* first integer that needs MantBits + 1 bits
MantNorm == 2 ^ (MantBits - 1)  \* a normalised significand is >= MantNorm
HalfBits == MantBits \div 2     \* the significand is split in two halves for exact products
HalfTop  == 2 ^ HalfBits

RECURSIVE BitLen(_)
BitLen(n) == IF n = 0 THEN 0 ELSE 1 + BitLen(n \div 2)

\* round-to-nearest-even of (q + r / 2^s) * 2^s to a significand and exponent
RoundEven(q, r, half, e) ==
    LET up == (r > half) \/ (r = half /\ q % 2 = 1)
        q1 == IF up THEN q + 1 ELSE q
    IN IF q1 = MantTop THEN [ m |-> MantNorm, e |-> e + 1 ] ELSE [ m |-> q1, e |-> e ]

\* float32(a) * 255 for an integer a < 2^24: the exact product H * 2^12 + L,
\* rounded to 24 significant bits
FMul(a, c) ==
    LET ah == a \div HalfTop
        al == a % HalfTop
        t  == c * al
        H  == c * ah + (t \div HalfTop)
        L  == t % HalfTop
        s  == BitLen(H) - HalfBits
    IN IF H < HalfTop
         THEN [ m |-> H * HalfTop + L, e |-> 0 ]
         ELSE RoundEven(H * 2 ^ (HalfBits - s) + (L \div 2 ^ s), L % 2 ^ s, 2 ^ (s - 1), s)

\* long division: quotient bits of (Q + R / b) until the significand is normalised
RECURSIVE DivBits(_, _, _, _)
DivBits(Q, R, b, e) ==
    IF Q >= MantNorm THEN [ q |-> Q, r |-> R, e |-> e ]
    ELSE IF 2 * R >= b THEN DivBits(2 * Q + 1, 2 * R - b, b, e - 1)
         ELSE DivBits(2 * Q, 2 * R, b, e - 1)

\* float32 quotient x / b for a float x = [m, e] and an integer b, 0 < b < 2^24
FDiv(x, b) ==
    IF x.m = 0 THEN [ m |-> 0, e |-> 0 ]
    ELSE LET d == DivBits(x.m \div b, x.m % b, b, x.e)
         IN RoundEven(d.q, 2 * d.r, b, d.e)

\* np.uint8(x) of a float 0 <= x < 256: the fraction is cut off
ToUInt8(x) ==
    IF x.e >= 0 THEN (x.m * 2 ^ x.e) % 256
    ELSE IF -x.e > MantBits + 8 THEN 0 ELSE (x.m \div 2 ^ (-x.e)) % 256

Scale == 255
\* (depth_image - min) * 255 / (max - min), element by element, then np.uint8.
\* max = min: every element is 0 * 255 / 0 = NaN (numpy warns, it does not
\* raise), and np.uint8 of a NaN is whatever the build's cast gives: nanCast.
NormalizeSample(k, lo, hi) == ToUInt8(FDiv(FMul(k - lo, Scale), hi - lo))
normalize_depth(frame, nanCast) ==
    LET lo == SeqMin(frame)
        hi == SeqMax(frame)
    IN IF hi = lo THEN [ i \in DOMAIN frame |-> nanCast ]
       ELSE [ i \in DOMAIN frame |-> NormalizeSample(frame[i], lo, hi) ]

\* float32 samples the frames are drawn from: 0, small integers, and the
\* significands of 0.3f (10066330) and 1.3f (10905190)
DepthSamples == { 0, 3, 5, 10066330, 10905190 }
Frames == [ 1..FrameLen -> DepthSamples ]
IsFlat(frame) == SeqMax(frame) = SeqMin(frame)
\* what np.uint8 makes of a NaN, by build
NanCasts == { 0, 255 }

----------------------------------------------------------------------------
(* GraspMask.get_grasp: the angles evaluated, the candidates, the ranking   *)

\* if ALL_ROTATIONS: self.angles.append(a) / elif MAJOR_COMPONENT_IMAGE:
\* self.angles = [a] / else: self.angles = [0]
NextAngles(mode, angs, a) ==
    IF mode = "ALL_ROTATIONS" THEN Append(angs, a)
    ELSE IF mode = "MAJOR_COMPONENT_IMAGE" THEN << a >>
    ELSE << 0 >>

\* The response of cv2.filter2D and the np.argmax over it depend on the
\* pixels of the frame; the model draws them from a family of response
\* tables: table `seed` gives the k-th (angle, mask) pair its maximal
\* response and the pixel, mapped back to the original frame, where it lies.
ScoreLevels == { 0, 1, 2 }
PixelRows   == 0 .. 4
PixelCols   == 0 .. 6
calculate_best_grasp(seed, k) ==
    [ score |-> (seed * (k + (k \div 5))) % Cardinality(ScoreLevels),
      x     |-> (k * (seed + 1)) % Cardinality(PixelRows),
      y     |-> (k + seed) % Cardinality(PixelCols) ]

\* for angle in self.angles: for mask in self.masks:
\*     best_grasps.append((score, x, y, mask.shape[0], mask.shape[1], angle))
\* gen is the position at which the tuple was appended (not a field of the
\* code's tuple: it names the tuple in the ranked list).
Candidate(angs, bank, seed, k) ==
    LET nm == Len(bank)
        a  == angs[((k - 1) \div nm) + 1]
        m  == bank[((k - 1) % nm) + 1]
        g  == calculate_best_grasp(seed, k)
    IN [ score |-> g.score, x |-> g.x, y |-> g.y,
         h |-> m.rows, w |-> m.cols, angle |-> a, gen |-> k ]
Generated(angs, bank, seed) ==
    [ k \in 1..(Len(angs) * Len(bank)) |-> Candidate(angs, bank, seed, k) ]

\* sorted(best_grasps, key=lambda x: x[0], reverse=True): descending by the
\* key, stable (tuples with equal keys keep the order they had in the list):
\* the tuples of the greatest key in list order, then those of the next, ...
FirstKeyAscending(S) == SetMin(S)
FirstKey(S) == SetMax(S)
RECURSIVE ByKeys(_, _)
ByKeys(s, keys) ==
    IF keys = {} THEN << >>
    ELSE LET top == FirstKey(keys)
         IN SelectSeq(s, LAMBDA c : c.score = top) \o ByKeys(s, keys \ { top })
SortedDesc(s) == ByKeys(s, { s[i].score : i \in DOMAIN s })

\* return best_grasps[0][1], best_grasps[0][2], best_grasps[0][5]*pi/180 + pi/2,
\*        mask.shape[0]        (mask: the loop variable, the last mask of the bank)
\* The angle is kept in degrees: angle_rad = angle_deg * pi / 180 + pi / 2.
Returned(ranked, bank) ==
    IF Len(ranked) = 0 THEN [ kind |-> "IndexError" ]
    ELSE [ kind |-> "ok", x |-> ranked[1].x, y |-> ranked[1].y,
           angle_deg |-> ranked[1].angle, maskSize |-> bank[Len(bank)].rows ]

\* frames handed to get_grasp: one flat, one not
GraspFrames == { [ i \in 1..FrameLen |-> 5 ],
                 [ i \in 1..FrameLen |-> IF i = 1 THEN 0 ELSE 5 ] }
\* major_component_angle = arctan2(...) * 180 / pi: one value of the sweep,
\* one outside it
MajorAngles == { 0, 37 }

NoCall == [ kind |-> "none" ]

(* One invocation of get_grasp, depth_image_callback included.  `found` is  *)
(* whether cv2.findContours returned a contour: max() of an empty list      *)
(* raises ValueError before self.angles is touched.                         *)
GetGrasp ==
    /\ calls < MaxCalls
    /\ bank_status = "ok"
    /\ \E frame \in GraspFrames, nanCast \in NanCasts, found \in BOOLEAN,
          a \in MajorAngles, seed \in 0..MaxSeed :
         /\ (~IsFlat(frame)) => nanCast = 0
         /\ calls' = calls + 1
         /\ depth_image' = frame
         /\ norm_image' = normalize_depth(frame, nanCast)
         /\ IF ~found
              THEN /\ ret' = [ kind |-> "ValueError", raised_by |-> "get_largest_contour" ]
                   /\ major_angle' = "none"
                   /\ best_grasps' = << >>
                   /\ UNCHANGED angles
              ELSE /\ major_angle' = a
                   /\ angles' = NextAngles(grasp_mode, angles, a)
                   /\ best_grasps' = SortedDesc(Generated(angles', masks, seed))
                   /\ ret' = Returned(best_grasps', masks)
    /\ UNCHANGED << grasp_mode, mask_sizes, weights, masks, bank_status >>
    /\ UNCHANGED << efdVars, aff, pca, seg >>

\* the variables of the other components, at rest
CallRest == /\ calls = 0 /\ depth_image = << >> /\ norm_image = << >>
            /\ major_angle = "none" /\ best_grasps = << >> /\ ret = NoCall
EfdRest  == efd_cands = << >> /\ efd_grasps = << >> /\ efd_ret = NoCall
AffRest  == aff = NoCall
PcaRest  == pca = NoCall
SegRest  == seg = NoCall

\* GraspMask.__init__
Init ==
    /\ grasp_mode = "ALL_ROTATIONS"
    /\ angles = ConfiguredAngles
    /\ mask_sizes = ConfiguredSizes
    /\ weights = ConfiguredWeights
    /\ masks = GenerateMasks(mask_sizes, weights)
    /\ bank_status = GenerateStatus(mask_sizes, weights)
    /\ CallRest /\ EfdRest /\ AffRest /\ PcaRest /\ SegRest

Next == GetGrasp

Spec == Init /\ [][Next]_vars

----------------------------------------------------------------------------
(* The mask bank as a function of its configuration *)

SizeBases    == { 1024, 100, 7 }
FirstWeights == { 1, 2 }

InitBank ==
    /\ grasp_mode = "ALL_ROTATIONS"
    /\ angles = ConfiguredAngles
    /\ \E ls \in 0..MaxSizes, base \in SizeBases : mask_sizes = SizeList(base, ls)
    /\ \E lw \in 0..MaxWeights, w0 \in FirstWeights :
          weights = [ i \in 1..lw |-> w0 + i - 1 ]
    /\ masks = << >>
    /\ bank_status = "unbuilt"
    /\ CallRest /\ EfdRest /\ AffRest /\ PcaRest /\ SegRest

\* self.generate_masks(), called by __init__
GenerateMasksCall ==
    /\ bank_status = "unbuilt"
    /\ masks' = GenerateMasks(mask_sizes, weights)
    /\ bank_status' = GenerateStatus(mask_sizes, weights)
    /\ UNCHANGED << grasp_mode, angles, mask_sizes, weights >>
    /\ UNCHANGED << callVars, efdVars, aff, pca, seg >>

NextBank == GenerateMasksCall

SpecBank == InitBank /\ [][NextBank]_vars

----------------------------------------------------------------------------
(* normalize_depth as a function of the frame *)

InitNorm ==
    /\ grasp_mode = "ALL_ROTATIONS"
    /\ angles = ConfiguredAngles
    /\ mask_sizes = ConfiguredSizes
    /\ weights = ConfiguredWeights
    /\ masks = GenerateMasks(mask_sizes, weights)
    /\ bank_status = GenerateStatus(mask_sizes, weights)
    /\ CallRest /\ EfdRest /\ AffRest /\ PcaRest /\ SegRest

NormalizeDepthCall ==
    /\ ret = NoCall
    /\ \E frame \in Frames, nanCast \in NanCasts :
         /\ (~IsFlat(frame)) => nanCast = 0
         /\ depth_image' = frame
         /\ norm_image' = normalize_depth(frame, nanCast)
         /\ ret' = [ kind |-> "image" ]
    /\ UNCHANGED << calls, major_angle, best_grasps >>
    /\ UNCHANGED << maskVars, efdVars, aff, pca, seg >>

NextNorm == NormalizeDepthCall

SpecNorm == InitNorm /\ [][NextNorm]_vars

----------------------------------------------------------------------------
(* pyefd.get_grasp: the contact-pair filter                                  *)
(* get_extremum_points hands over the sampled curve, the outward unit       *)
(* normals and the candidate indices maxima_minima.  A candidate is          *)
(* [x, y, h]: its curve point relative to the curve centroid                 *)
(* (center = mean(xt), mean(yt)), in units of 0.001, and the heading h of    *)
(* its outward normal in milliradians, 0 <= h <= 3141, so that the angle     *)
(* between two normals, arccos of their dot product, is |h1 - h2|.  The      *)
(* candidates are distinct samples of the curve, at distinct points.         *)

CandPoints   == { << -30, 0 >>, << 0, 40 >>, << 0, -40 >>, << 0, 16 >> }
CandHeadings == { 0, 2094, 2095, 3141 }
CandSet      == [ x : { p[1] : p \in CandPoints }, y : { p[2] : p \in CandPoints },
                  h : CandHeadings ]
CandOnCurve(c) == << c.x, c.y >> \in CandPoints

RECURSIVE ISqrtFrom(_, _)
ISqrtFrom(n, r) == IF (r + 1) * (r + 1) > n THEN r ELSE ISqrtFrom(n, r + 1)
\* np.linalg.norm of a vector with an integral norm (all CandPoints
\* differences have one)
\* (searched upwards from the longer leg, which the norm is not below)
Norm(dx, dy) == ISqrtFrom(dx * dx + dy * dy, SetMax({ Abs(dx), Abs(dy) }))

\* np.arccos(np.dot(n1, n2) / (|n1| |n2|)), in milliradians
NormalAngle(c1, c2) == Abs(c1.h - c2.h)

\* angle = arccos(...) * 180 / 3.14 ; if angle > 120:
PiUsedTimes100 == 314
AngleLimit     == 120
AngleTest(theta) == theta * 180 * 100 > AngleLimit * PiUsedTimes100 * 1000

\* dist = np.linalg.norm(pt1 - pt2) ; if dist < 0.08:   (0.08 = 80 units)
DistLimit == 80
PairDist(c1, c2) == Norm(c1.x - c2.x, c1.y - c2.y)
DistTest(d) == d < DistLimit

\* pt_dist + dist
PairCost(c1, c2) == Norm(c1.x, c1.y) + Norm(c2.x, c2.y) + PairDist(c1, c2)

\* list(combinations(maxima_minima, 2)): the pairs (i, j), i before j, in
\* lexicographic order of their positions
Combinations(n) ==
    SelectSeq([ k \in 1..(n * n) |-> << ((k - 1) \div n) + 1, ((k - 1) % n) + 1 >> ],
              LAMBDA pr : pr[1] < pr[2])

\* the loop over combinations_list: grasps.append([[idx1, idx2], pt_dist + dist])
Accepts(cands, pr) ==
    /\ AngleTest(NormalAngle(cands[pr[1]], cands[pr[2]]))
    /\ DistTest(PairDist(cands[pr[1]], cands[pr[2]]))
GraspEntry(cands, pr) ==
    [ i1 |-> pr[1], i2 |-> pr[2], cost |-> PairCost(cands[pr[1]], cands[pr[2]]) ]
AcceptedGrasps(cands) ==
    LET acc == SelectSeq(Combinations(Len(cands)), LAMBDA pr : Accepts(cands, pr))
    IN [ k \in 1..Len(acc) |-> GraspEntry(cands, acc[k]) ]

\* sorted(grasps, key=lambda x: x[1]): ascending by cost, stable
RECURSIVE ByCosts(_, _)
ByCosts(s, keys) ==
    IF keys = {} THEN << >>
    ELSE LET low == SetMin(keys)
         IN SelectSeq(s, LAMBDA g : g.cost = low) \o ByCosts(s, keys \ { low })
\* the accepted pairs left in the order of their enumeration
SortedByEnumeration(s) == s
SortedByCost(s) == ByCosts(s, { s[i].cost : i \in DOMAIN s })

\* best_grasp = sorted_grasp[0] raises IndexError on an empty list;
\* return np.array([[x1, y1], [x2, y2]])
EfdReturn(cands, sorted) ==
    IF Len(sorted) = 0 THEN [ kind |-> "IndexError" ]
    ELSE [ kind |-> "ok", i1 |-> sorted[1].i1, i2 |-> sorted[1].i2,
           p1 |-> << cands[sorted[1].i1].x, cands[sorted[1].i1].y >>,
           p2 |-> << cands[sorted[1].i2].x, cands[sorted[1].i2].y >> ]

\* ---- the contour segmentation at the head of get_grasp ----
\* Contour points in units of 0.001: (18, 24) is exactly 0.03 from the
\* origin, (40, 0) is farther than 0.03 from the origin and from (18, 24).
ContourPoints == { << 0, 0 >>, << 20, 0 >>, << 18, 24 >>, << 40, 0 >> }
Contours == UNION { [ 1..n -> ContourPoints ] : n \in 1..MaxContour }

\* distances = np.sqrt(np.sum(np.diff(largest_contour, axis=0)**2, axis=1));
\* distances > 0.03   (0.03 = 30 units; compared on the squares)
GapLimit == 30
SquaredStep(c, k) ==
    (c[k + 1][1] - c[k][1]) * (c[k + 1][1] - c[k][1])
      + (c[k + 1][2] - c[k][2]) * (c[k + 1][2] - c[k][2])
IsGap(c, k) == SquaredStep(c, k) > GapLimit * GapLimit

\* split_indices = np.where(distances > 0.03)[0]: the 0-based indices k of
\* the steps from point k to point k + 1 that are gaps, ascending
SplitIndices(c) ==
    SelectSeq([ k \in 1..(Len(c) - 1) |-> k - 1 ], LAMBDA k : IsGap(c, k + 1))

\* np.concatenate(([0], split_indices, [largest_contour.shape[0] - 1]))
SplitBounds(c) == << 0 >> \o SplitIndices(c) \o << Len(c) - 1 >>

\* largest_contour[a:b] with 0 <= a and b <= len
Slice(c, a, b) == SubSeq(c, a + 1, b)

\* subarrays
Subarrays(c) ==
    IF Len(SplitIndices(c)) = 0 THEN << c >>
    ELSE LET b == SplitBounds(c)
         IN [ i \in 1..(Len(b) - 1) |-> Slice(c, b[i], b[i + 1] + 1) ]

\* outer_contour = max(subarrays, key=lambda x: x.shape[0]): the first of
\* the longest
OuterContour(subs) ==
    LET longest == SetMax({ Len(subs[i]) : i \in DOMAIN subs })
        first   == SetMin({ i \in DOMAIN subs : Len(subs[i]) = longest })
    IN subs[first]

Segmentation(c) ==
    [ kind |-> "split", contour |-> c, split_indices |-> SplitIndices(c),
      subarrays |-> Subarrays(c), outer_contour |-> OuterContour(Subarrays(c)) ]

\* contours of the requests whose contact pairs are followed: one without
\* a gap, one with a gap
EfdContours == { << << 0, 0 >>, << 20, 0 >>, << 40, 0 >> >>,
                 << << 0, 0 >>, << 40, 0 >>, << 20, 0 >> >> }

InitEfd ==
    /\ grasp_mode = "ALL_ROTATIONS"
    /\ angles = ConfiguredAngles
    /\ mask_sizes = ConfiguredSizes
    /\ weights = ConfiguredWeights
    /\ masks = GenerateMasks(mask_sizes, weights)
    /\ bank_status = GenerateStatus(mask_sizes, weights)
    /\ CallRest /\ EfdRest /\ AffRest /\ PcaRest /\ SegRest

\* one call of pyefd.get_grasp (from handle_get_grasp)
EfdGetGrasp ==
    /\ efd_ret = NoCall
    /\ \E c \in EfdContours : seg' = Segmentation(c)
    /\ \E n \in 0..MaxCand : \E pts \in [ 1..n -> CandPoints ], hs \in [ 1..n -> CandHeadings ] :
         LET cands == [ i \in 1..n |-> [ x |-> pts[i][1], y |-> pts[i][2], h |-> hs[i] ] ]
         IN
         /\ \A i \in 1..n : cands[i] \in CandSet /\ CandOnCurve(cands[i])
         /\ \A i, j \in 1..n : i # j => pts[i] # pts[j]
         /\ efd_cands' = cands
         /\ efd_grasps' = AcceptedGrasps(cands)
         /\ efd_ret' = EfdReturn(cands, SortedByCost(efd_grasps'))
    /\ UNCHANGED << maskVars, callVars, aff, pca >>

NextEfd == EfdGetGrasp

SpecEfd == InitEfd /\ [][NextEfd]_vars

\* the segmentation step of get_grasp over every short contour
InitSeg ==
    /\ grasp_mode = "ALL_ROTATIONS"
    /\ angles = ConfiguredAngles
    /\ mask_sizes = ConfiguredSizes
    /\ weights = ConfiguredWeights
    /\ masks = GenerateMasks(mask_sizes, weights)
    /\ bank_status = GenerateStatus(mask_sizes, weights)
    /\ CallRest /\ EfdRest /\ AffRest /\ PcaRest /\ SegRest

SegmentContour ==
    /\ seg = NoCall
    /\ \E c \in Contours : seg' = Segmentation(c)
    /\ UNCHANGED << maskVars, callVars, efdVars, aff, pca >>

NextSeg == SegmentContour

SpecSeg == InitSeg /\ [][NextSeg]_vars

----------------------------------------------------------------------------
(* The rotation about the contour centroid and its inverse                   *)
(* cv2.getRotationMatrix2D(center, angle, 1.0) is                            *)
(*     [  a  b  (1 - a) cx - b cy ]                                          *)
(*     [ -b  a  b cx + (1 - a) cy ]     a = cos(angle), b = sin(angle).      *)
(* Angles with rational sine and cosine are evaluated exactly: an angle is   *)
(* [c, s, d] for cos = c/d, sin = s/d, a point is [x, y, w] for (x/w, y/w), *)
(* a matrix carries the common denominator den of its six entries.           *)

RotAngles == { [ c |->  1, s |->   0, d |->  1 ],    \*    0 degrees
               [ c |->  0, s |->   1, d |->  1 ],    \*   90
               [ c |->  0, s |->  -1, d |->  1 ],    \*  -90
               [ c |-> -1, s |->   0, d |->  1 ],    \*  180
               [ c |->  4, s |->   3, d |->  5 ],    \*   36.87
               [ c |->  3, s |->  -4, d |->  5 ],    \*  -53.13
               [ c |-> -5, s |->  12, d |-> 13 ] }   \*  112.62
Centroids == { [ x |-> 0, y |-> 0, w |-> 1 ],
               [ x |-> 3, y |-> 5, w |-> 2 ],
               [ x |-> 7, y |-> 2, w |-> 1 ] }
Negated(ang) == [ c |-> ang.c, s |-> -ang.s, d |-> ang.d ]

getRotationMatrix2D(ctr, ang) ==
    [ m11 |-> ang.c * ctr.w,  m12 |-> ang.s * ctr.w,
      m13 |-> (ang.d - ang.c) * ctr.x - ang.s * ctr.y,
      m21 |-> -ang.s * ctr.w, m22 |-> ang.c * ctr.w,
      m23 |-> ang.s * ctr.x + (ang.d - ang.c) * ctr.y,
      den |-> ang.d * ctr.w ]

\* affine_trans = cv2.getRotationMatrix2D(contour_mean, angle, 1.0)
AffineTrans(ctr, ang) == getRotationMatrix2D(ctr, ang)
\* inv_affine_trans = cv2.getRotationMatrix2D(contour_mean, -angle, 1.0)
InvAffineTransSameAngle(ctr, ang) == getRotationMatrix2D(ctr, ang)
InvAffineTrans(ctr, ang) == getRotationMatrix2D(ctr, Negated(ang))

\* M @ [x, y, 1]
ApplyAffine(M, v) ==
    [ x |-> M.m11 * v.x + M.m12 * v.y + M.m13 * v.w,
      y |-> M.m21 * v.x + M.m22 * v.y + M.m23 * v.w,
      w |-> M.den * v.w ]

\* int(): towards zero
IntTrunc(n, w) == IF n >= 0 THEN n \div w ELSE -((-n) \div w)

SamePoint(u, v) == u.x * v.w = v.x * u.w /\ u.y * v.w = v.y * u.w

InitAffine ==
    /\ grasp_mode = "ALL_ROTATIONS"
    /\ angles = ConfiguredAngles
    /\ mask_sizes = ConfiguredSizes
    /\ weights = ConfiguredWeights
    /\ masks = GenerateMasks(mask_sizes, weights)
    /\ bank_status = GenerateStatus(mask_sizes, weights)
    /\ CallRest /\ EfdRest /\ AffRest /\ PcaRest /\ SegRest

\* A pixel (col, row) of the frame is carried into the rotated image by
\* affine_trans (cv2.warpAffine) and back by calculate_best_grasp:
\* max_loc_original_frame = inv_affine_trans @ [max_loc[1], max_loc[0], 1],
\* x = int(max_loc_original_frame[1]), y = int(max_loc_original_frame[0]).
AffineRoundTrip ==
    /\ aff = NoCall
    /\ \E ang \in RotAngles, ctr \in Centroids, col \in 0..MaxPixel, row \in 0..MaxPixel :
         LET p    == [ x |-> col, y |-> row, w |-> 1 ]
             fwd  == ApplyAffine(AffineTrans(ctr, ang), p)
             back == ApplyAffine(InvAffineTrans(ctr, ang), fwd)
         IN aff' = [ kind |-> "mapped", angle |-> ang, center |-> ctr,
                     pixel |-> p, fwd |-> fwd, back |-> back,
                     x |-> IntTrunc(back.y, back.w), y |-> IntTrunc(back.x, back.w) ]
    /\ UNCHANGED << maskVars, callVars, efdVars, pca, seg >>

NextAffine == AffineRoundTrip

SpecAffine == InitAffine /\ [][NextAffine]_vars

----------------------------------------------------------------------------
(* GraspMask.get_major_directions: the eigen-sort-and-select                 *)
(* np.linalg.eig of the 2 x 2 covariance matrix gives two eigenvalues and,   *)
(* column i, the eigenvector of eigenvalue i; the columns are named by       *)
(* their index 0, 1.                                                         *)

TopK  == 1      \* self.top_k
EigN  == 2      \* the covariance matrix of (x, y) points is 2 x 2
Perms == { << 0, 1 >>, << 1, 0 >> }

Reverse(s) == [ i \in 1..Len(s) |-> s[Len(s) + 1 - i] ]

\* np.argsort(eigenvalues): an index order that makes the values ascend.
\* The default kind (quicksort) promises no order among equal values; its
\* insertion sort of short arrays leaves them in index order.
IsArgSort(order, vals) ==
    \A i \in 1..(Len(order) - 1) : vals[order[i] + 1] <= vals[order[i + 1] + 1]

\* sorted_indices = np.argsort(eigenvalues)[::-1]
SortedIndices(order) == Reverse(order)

\* sorted_eigenvecs = eigenvectors[:, sorted_indices]
\* major_directions = sorted_eigenvecs[:, :self.top_k]
MajorDirections(sorted_indices) == SubSeq(sorted_indices, 1, TopK)

InitPca ==
    /\ grasp_mode = "ALL_ROTATIONS"
    /\ angles = ConfiguredAngles
    /\ mask_sizes = ConfiguredSizes
    /\ weights = ConfiguredWeights
    /\ masks = GenerateMasks(mask_sizes, weights)
    /\ bank_status = GenerateStatus(mask_sizes, weights)
    /\ CallRest /\ EfdRest /\ AffRest /\ PcaRest /\ SegRest

\* one call of get_major_directions
GetMajorDirections ==
    /\ pca = NoCall
    /\ \E vals \in [ 1..EigN -> 0..MaxEig ], order \in Perms :
         /\ IsArgSort(order, vals)
         /\ pca' = [ kind |-> "directions", eigenvalues |-> vals, argsort |-> order,
                     sorted_indices |-> SortedIndices(order),
                     major |-> MajorDirections(SortedIndices(order)) ]
    /\ UNCHANGED << maskVars, callVars, efdVars, aff, seg >>

NextPca == GetMajorDirections

SpecPca == InitPca /\ [][NextPca]_vars

----------------------------------------------------------------------------
(* Claims about GraspMask (specification Spec)                               *)

Succeeded == calls > 0 /\ ret.kind = "ok"

\* C1: the persistent angle list self.angles is read-only during scoring:
\* after any sequence of get_grasp invocations it is the list built by the
\* constructor (same length, same contents).
C1_AngleListReadOnly == angles = ConfiguredAngles

\* C2: the ranked candidate list is sorted by non-increasing score and the
\* sort is stable: it holds every generated candidate once, and of two
\* candidates with equal score the one generated first (angle loop outer,
\* mask loop inner) comes first.
C2_RankedSortedStable ==
    Succeeded =>
      LET n  == Len(best_grasps)
          nm == Len(masks)
      IN /\ n = Len(angles) * nm
         /\ { best_grasps[i].gen : i \in 1..n } = 1..n
         /\ \A i \in 1..n :
              LET c == best_grasps[i]
              IN /\ c.angle = angles[((c.gen - 1) \div nm) + 1]
                 /\ << c.h, c.w >> = << masks[((c.gen - 1) % nm) + 1].rows,
                                        masks[((c.gen - 1) % nm) + 1].cols >>
         /\ \A i \in 1..n : \A j \in (i + 1)..n :
              /\ best_grasps[i].score >= best_grasps[j].score
              /\ best_grasps[i].score = best_grasps[j].score
                   => best_grasps[i].gen < best_grasps[j].gen

\* C2 witness: a ranked list with ties and with distinct scores, in which
\* the sort moved candidates away from their generation position.
C2_Witness ==
    /\ Succeeded
    /\ \E i, j \in DOMAIN best_grasps :
         i < j /\ best_grasps[i].score = best_grasps[j].score
    /\ \E i, j \in DOMAIN best_grasps :
         best_grasps[i].score > best_grasps[j].score
    /\ \E i \in DOMAIN best_grasps : best_grasps[i].gen # i

\* int(size/5) and int(3*size/5) of a configured size
FloorFifth(size)       == size.n \div (5 * size.d)
FloorThreeFifths(size) == (3 * size.n) \div (5 * size.d)

\* C4 as stated: every mask of the bank for a configured size s has shape
\* (floor(s/5), floor(3s/5)), and that is the (maskHeight, maskWidth) of
\* every candidate.
C4_MaskShapeOneBand ==
    /\ \A i \in DOMAIN masks :
         /\ masks[i].rows = FloorFifth(mask_sizes[i])
         /\ masks[i].cols = FloorThreeFifths(mask_sizes[i])
    /\ \A k \in DOMAIN best_grasps :
         \E i \in DOMAIN mask_sizes :
            /\ best_grasps[k].h = FloorFifth(mask_sizes[i])
            /\ best_grasps[k].w = FloorThreeFifths(mask_sizes[i])

\* C4 amended: every mask of the bank for a configured size s has shape
\* (5 * floor(s/5), floor(3s/5)), five bands of floor(s/5) rows each; for
\* the shipped sizes these are 255x153, 125x76, 85x51 and 60x38; and the
\* (maskHeight, maskWidth) of every candidate is the shape of the mask of
\* its (angle, mask) pair.
C4_MaskShapeFiveBands ==
    /\ \A i \in DOMAIN masks :
         /\ masks[i].rows = 5 * FloorFifth(mask_sizes[i])
         /\ masks[i].cols = FloorThreeFifths(mask_sizes[i])
    /\ [ i \in DOMAIN masks |-> << masks[i].rows, masks[i].cols >> ]
          = << << 255, 153 >>, << 125, 76 >>, << 85, 51 >>, << 60, 38 >> >>
    /\ \A k \in DOMAIN best_grasps :
         LET i == ((best_grasps[k].gen - 1) % Len(masks)) + 1
         IN /\ best_grasps[k].h = 5 * FloorFifth(mask_sizes[i])
            /\ best_grasps[k].w = FloorThreeFifths(mask_sizes[i])

\* C4 witness: a successful invocation has ranked candidates of every mask.
C4_Witness ==
    /\ Succeeded
    /\ \A i \in DOMAIN masks :
         \E k \in DOMAIN best_grasps : best_grasps[k].h = masks[i].rows

\* C8: a flat frame (max = min) makes normalize_depth fail with
\* DegenerateFrameError: no normalised image is returned and get_grasp
\* yields no grasp coordinates.
C8_FlatFrameFailsTyped ==
    (calls > 0 /\ IsFlat(depth_image)) =>
        /\ ret.kind = "DegenerateFrameError"
        /\ norm_image = << >>

\* the angles the claim expects an invocation to evaluate
ExpectedAngles(mode, a) ==
    IF mode = "ALL_ROTATIONS" THEN Append(ConfiguredAngles, a)
    ELSE IF mode = "MAJOR_COMPONENT_IMAGE" THEN << a >>
    ELSE << 0 >>

\* C10: on every invocation the angles evaluated are a function of the mode
\* and of this invocation's principal-axis angle alone (the configured
\* sweep plus that angle / that angle / 0), and one candidate is emitted
\* per (angle, mask) pair.
C10_AnglesDependOnThisCallOnly ==
    Succeeded =>
      /\ angles = ExpectedAngles(grasp_mode, major_angle)
      /\ Len(best_grasps) = Len(ExpectedAngles(grasp_mode, major_angle)) * Len(masks)

----------------------------------------------------------------------------
(* Claims about generate_masks (specification SpecBank)                      *)

WeightsMatch == \A i \in DOMAIN masks :
                   masks[i].weight = weights[i] /\ masks[i].size = mask_sizes[i]

\* C3 as stated: for any size list and weight list generate_masks completes
\* and builds min(len(sizes), len(weights)) masks, the i-th scaled by the
\* i-th weight.
C3_TruncatesEitherWay ==
    bank_status # "unbuilt" =>
      /\ bank_status = "ok"
      /\ Len(masks) = Min2(Len(mask_sizes), Len(weights))
      /\ WeightsMatch

\* C3 amended: with at least as many weights as sizes generate_masks
\* completes and builds one mask per size, the i-th scaled by the i-th
\* weight (surplus weights are ignored: 4 sizes with weights 1..5 give 4
\* masks scaled by 1, 2, 3, 4); with fewer weights than sizes it fails with
\* an IndexError, having built one mask per weight.
C3_TruncatesSurplusWeights ==
    bank_status # "unbuilt" =>
      /\ WeightsMatch
      /\ IF Len(weights) >= Len(mask_sizes)
           THEN bank_status = "ok" /\ Len(masks) = Len(mask_sizes)
           ELSE bank_status = "IndexError" /\ Len(masks) = Len(weights)
      /\ (mask_sizes = ConfiguredSizes /\ weights = << 1, 2, 3, 4, 5 >>)
           => [ i \in DOMAIN masks |-> masks[i].weight ] = << 1, 2, 3, 4 >>

\* C3 witness: the shipped configuration, 4 sizes and 5 weights, built.
C3_Witness ==
    /\ bank_status = "ok"
    /\ Len(mask_sizes) = 4 /\ Len(weights) = 5 /\ Len(masks) = 4

----------------------------------------------------------------------------
(* Claims about normalize_depth (specification SpecNorm)                     *)

\* C7: for a frame whose values are not all equal the result lies in
\* 0..255, the minimum is mapped to 0, the maximum to 255, and the mapping
\* is monotonic.
C7_NormalizeRangeMonotone ==
    (ret.kind = "image" /\ ~IsFlat(depth_image)) =>
      /\ \A i \in DOMAIN norm_image : norm_image[i] \in 0..255
      /\ \A i \in DOMAIN depth_image :
           /\ depth_image[i] = SeqMin(depth_image) => norm_image[i] = 0
           /\ depth_image[i] = SeqMax(depth_image) => norm_image[i] = 255
      /\ \A i, j \in DOMAIN depth_image :
           depth_image[i] <= depth_image[j] => norm_image[i] <= norm_image[j]

----------------------------------------------------------------------------
(* Claims about the boundary-fit get_grasp (specification SpecEfd)           *)

\* the angle between the normals exceeds 120 degrees: theta / 1000 rad * 180
\* / pi > 120, decided with 3.141592 < pi < 3.141593 (no heading difference
\* of the model falls between the two)
ExceedsLimitDegrees(theta) == theta * 180 * 1000 >= AngleLimit * 3141593

PairMeetsThresholds(cands, i1, i2) ==
    /\ ExceedsLimitDegrees(NormalAngle(cands[i1], cands[i2]))
    /\ PairDist(cands[i1], cands[i2]) < DistLimit

\* C5: no pair of the accepted list, and so not the returned pair, has an
\* angle between outward normals of 120 degrees or less, or a distance of
\* 0.08 or more.
C5_AcceptedPairsMeetThresholds ==
    /\ \A k \in DOMAIN efd_grasps :
         PairMeetsThresholds(efd_cands, efd_grasps[k].i1, efd_grasps[k].i2)
    /\ efd_ret.kind = "ok" => PairMeetsThresholds(efd_cands, efd_ret.i1, efd_ret.i2)

\* C6: with no candidate, or no pair passing both thresholds, get_grasp
\* fails with NoGraspFoundError and returns no coordinates.
C6_NoPairFailsTyped ==
    (efd_ret # NoCall /\ Len(efd_grasps) = 0) => efd_ret.kind = "NoGraspFoundError"

----------------------------------------------------------------------------
(* Claims about the rotation pair (specification SpecAffine)                 *)

----------------------------------------------------------------------------
(* Claims about get_major_directions (specification SpecPca)                 *)

\* C11: the top_k eigenvectors come in descending order of eigenvalue, and
\* of two equal eigenvalues the eigenvector with the smaller original index
\* comes first: with top_k = 1 and equal eigenvalues the primary axis is the
\* eigenvector of index 0.
C11_DescendingStableTieBreak ==
    pca.kind = "directions" =>
      LET si == pca.sorted_indices
          ev == pca.eigenvalues
      IN /\ pca.major = SubSeq(si, 1, TopK)
         /\ \A i \in 1..(Len(si) - 1) :
              /\ ev[si[i] + 1] >= ev[si[i + 1] + 1]
              /\ ev[si[i] + 1] = ev[si[i + 1] + 1] => si[i] < si[i + 1]
         /\ (ev[1] = ev[2]) => pca.major[1] = 0

----------------------------------------------------------------------------
(* Claims about the choice among accepted pairs (specification SpecEfd)      *)

PairOf(i, j)   == << i, j >>
AcceptedPairs  ==
    { pr \in (DOMAIN efd_cands) \X (DOMAIN efd_cands) :
        pr[1] < pr[2] /\ Accepts(efd_cands, pr) }
CostOf(pr)     == PairCost(efd_cands[pr[1]], efd_cands[pr[2]])
\* pr is enumerated by combinations() before qr
EnumeratedBefore(pr, qr) ==
    pr[1] < qr[1] \/ (pr[1] = qr[1] /\ pr[2] < qr[2])

\* C12: the returned pair is an accepted pair of least cost (distances of
\* its two points from the curve centroid plus the distance between them):
\* no accepted pair costs strictly less, and of the accepted pairs of the
\* same cost the returned one is enumerated first.
C12_ReturnsFirstCheapestPair ==
    efd_ret.kind = "ok" =>
      LET best == PairOf(efd_ret.i1, efd_ret.i2)
      IN /\ best \in AcceptedPairs
         /\ \A pr \in AcceptedPairs :
              /\ CostOf(best) <= CostOf(pr)
              /\ (CostOf(pr) = CostOf(best) /\ pr # best) => EnumeratedBefore(best, pr)

\* a request with a dearer accepted pair enumerated first and two accepted
\* pairs sharing the least cost
C12_Witness ==
    /\ efd_ret.kind = "ok"
    /\ \E pr \in AcceptedPairs :
         /\ CostOf(pr) > CostOf(PairOf(efd_ret.i1, efd_ret.i2))
         /\ EnumeratedBefore(pr, PairOf(efd_ret.i1, efd_ret.i2))
    /\ \E pr \in AcceptedPairs :
         /\ pr # PairOf(efd_ret.i1, efd_ret.i2)
         /\ CostOf(pr) = CostOf(PairOf(efd_ret.i1, efd_ret.i2))

----------------------------------------------------------------------------
(* Claims about the returned descriptor (specification Spec)                 *)

\* C13: the returned descriptor (x, y, angle, maskSize) is taken entirely
\* from the top-ranked candidate: its x, its y, its angle, and as maskSize
\* its maskHeight.
C13_DescriptorFromTopCandidate ==
    Succeeded =>
      /\ ret.x = best_grasps[1].x
      /\ ret.y = best_grasps[1].y
      /\ ret.angle_deg = best_grasps[1].angle
      /\ ret.maskSize = best_grasps[1].h

----------------------------------------------------------------------------
(* Claims about the contour segmentation (specifications SpecSeg, SpecEfd)   *)

HasGap(c) == \E k \in 1..(Len(c) - 1) : IsGap(c, k)

\* C14: the segmentation splits the contour at every gap larger than 0.03:
\* no sub-array, and so not the longest one chosen as the outer contour,
\* has two consecutive points farther apart than 0.03; a contour without
\* such a gap is the single segment.
C14_SegmentsHaveNoGap ==
    seg.kind = "split" =>
      /\ \A i \in DOMAIN seg.subarrays : ~HasGap(seg.subarrays[i])
      /\ ~HasGap(seg.outer_contour)
      /\ ~HasGap(seg.contour) => seg.subarrays = << seg.contour >>

====
